---- MODULE Spec2Model ----
(***************************************************************************)
(* A model of pythonfinder's utils.py: the filename matcher                *)
(* (looks_like_python), the path predicates with their lru_cache           *)
(* memoization, the company guess and the version-string parser.           *)
(*                                                                         *)
(* Strings are sequences of one-character strings: "3.9" is                *)
(* <<"3", ".", "9">>.  Regular expressions are modelled by the set of      *)
(* positions a backtracking matcher can reach; a position i means that     *)
(* the first i characters are consumed.                                    *)
(***************************************************************************)
EXTENDS Integers, Sequences, FiniteSets, TLC

VARIABLES
    os_name,       \* os.name of the host: "posix" or "nt"
    pathext,       \* the entries of the PATHEXT environment variable, split
    arg,           \* the argument of the call being made
    pc,            \* "ready" before the call is made, "done" once it has returned
    ret,           \* the value the call returned (None before it returns)
    fs,            \* the file system: path -> [x: os.access X_OK, r: R_OK]
    cache_known,   \* lru_cache of path_is_known_executable
    cache_python,  \* lru_cache of path_is_python
    cache_looks    \* lru_cache of looks_like_python

vars == <<os_name, pathext, arg, pc, ret, fs, cache_known, cache_python, cache_looks>>

None == "None"

(***************************************************************************)
(* Characters and string helpers.                                          *)
(***************************************************************************)
Digits == {"0", "1", "2", "3", "4", "5", "6", "7", "8", "9"}

UpperChars == <<"A", "B", "C", "D", "E", "F", "G", "H", "I", "J", "K", "L", "M",
                "N", "O", "P", "Q", "R", "S", "T", "U", "V", "W", "X", "Y", "Z">>
LowerChars == <<"a", "b", "c", "d", "e", "f", "g", "h", "i", "j", "k", "l", "m",
                "n", "o", "p", "q", "r", "s", "t", "u", "v", "w", "x", "y", "z">>

UpperSet == {UpperChars[i] : i \in 1..Len(UpperChars)}
ToLower == [c \in UpperSet |-> LowerChars[CHOOSE i \in 1..Len(UpperChars) : UpperChars[i] = c]]

\* str.lower() on one character
LowerChar(c) == IF c \in UpperSet THEN ToLower[c] ELSE c

\* str.lower()
Lower(s) == [i \in 1..Len(s) |-> LowerChar(s[i])]

\* s[i+1 .. i+Len(lit)] = lit : the literal lit occurs in s right after position i
LitAt(s, i, lit) ==
    /\ i + Len(lit) <= Len(s)
    /\ \A k \in 1..Len(lit) : s[i + k] = lit[k]

\* str.startswith
StartsWith(s, lit) == LitAt(s, 0, lit)

\* str.endswith
EndsWith(s, lit) == Len(lit) <= Len(s) /\ LitAt(s, Len(s) - Len(lit), lit)

\* lit in s
Contains(s, lit) == \E i \in 0..Len(s) : LitAt(s, i, lit)

\* the character after position i, or None at the end of the string
CharAfter(s, i) == IF i < Len(s) THEN s[i + 1] ELSE None

(***************************************************************************)
(* Module constants, utils.py lines 35-75.                                 *)
(***************************************************************************)
PYTHON_IMPLEMENTATIONS ==
    << <<"p", "y", "t", "h", "o", "n">>,
       <<"i", "r", "o", "n", "p", "y", "t", "h", "o", "n">>,
       <<"j", "y", "t", "h", "o", "n">>,
       <<"p", "y", "p", "y">>,
       <<"a", "n", "a", "c", "o", "n", "d", "a">>,
       <<"m", "i", "n", "i", "c", "o", "n", "d", "a">>,
       <<"s", "t", "a", "c", "k", "l", "e", "s", "s">>,
       <<"a", "c", "t", "i", "v", "e", "p", "y", "t", "h", "o", "n">>,
       <<"p", "y", "s", "t", "o", "n">>,
       <<"m", "i", "c", "r", "o", "p", "y", "t", "h", "o", "n">> >>

Impls == {PYTHON_IMPLEMENTATIONS[i] : i \in 1..Len(PYTHON_IMPLEMENTATIONS)}

\* KNOWN_EXTS: the defaults of the host, united with the PATHEXT entries
KNOWN_EXTS ==
    (IF os_name = "nt"
     THEN {<<"e", "x", "e">>, <<"p", "y">>, <<"b", "a", "t">>, <<>>}
     ELSE {<<"s", "h">>, <<"b", "a", "s", "h">>, <<"c", "s", "h">>, <<"z", "s", "h">>,
           <<"f", "i", "s", "h">>, <<"p", "y">>, <<>>})
    \cup {e \in pathext : e # <<>>}

\* RULES_BASE: each template as the text before and after its {0} placeholder
RULES_BASE ==
    { << <<"*">>, <<>> >>,
      << <<"*">>, <<"?">> >>,
      << <<"*">>, <<"?", ".", "?">> >>,
      << <<"*">>, <<"?", ".", "?", "m">> >>,
      << <<>>, <<"?", "-", "?", ".", "?">> >>,
      << <<>>, <<"?", "-", "?", ".", "?", ".", "?">> >>,
      << <<>>, <<"?", ".", "?", "-", "?", ".", "?", ".", "?">> >> }

\* RULES: rule.format(impl) for every implementation and template
RULES == {b[1] \o impl \o b[2] : impl \in Impls, b \in RULES_BASE}

\* MATCH_RULES: every rule with every known extension
MATCH_RULES ==
    {IF ext # <<>> THEN rule \o <<".">> \o ext ELSE rule : rule \in RULES, ext \in KNOWN_EXTS}

(***************************************************************************)
(* fnmatch.fnmatch: both sides go through os.path.normcase, then the       *)
(* pattern is matched as a shell glob over the whole name.                 *)
(***************************************************************************)
normcase(s) ==
    IF os_name = "nt"
    THEN [i \in 1..Len(s) |-> IF s[i] = "/" THEN "\\" ELSE LowerChar(s[i])]
    ELSE s

RECURSIVE Glob(_, _, _, _)
\* does pat[j..] match s[i..] ?  "*" is any run of characters, "?" any one character
Glob(s, i, pat, j) ==
    IF j > Len(pat) THEN i > Len(s)
    ELSE IF pat[j] = "*"
         THEN Glob(s, i, pat, j + 1) \/ (i <= Len(s) /\ Glob(s, i + 1, pat, j))
         ELSE /\ i <= Len(s)
              /\ (pat[j] = "?" \/ pat[j] = s[i])
              /\ Glob(s, i + 1, pat, j + 1)

fnmatch(name, pat) == Glob(normcase(name), 1, normcase(pat), 1)

(***************************************************************************)
(* PY_MATCH_STR, lines 54-58:                                              *)
(*   ((?P<implementation>impl|...)(?:\d?(?:\.\d[cpm]{0,3}))?               *)
(*    (?:-?[\d\.]+)*(?!w))                                                 *)
(* Each operator gives every position the backtracking matcher can stop at.*)
(***************************************************************************)
\* (?P<implementation>python|ironpython|...)
ImplEnds(s) == {Len(impl) : impl \in {m \in Impls : StartsWith(s, m)}}

\* (?:\d?(?:\.\d[cpm]{0,3}))? from position i
AbiEnds(s, i) ==
    {i} \cup
    UNION { {k + 2 + n : n \in {m \in 0..3 :
                                  \A q \in 1..m : CharAfter(s, k + 1 + q) \in {"c", "p", "m"}}}
            : k \in {k0 \in {i} \cup (IF CharAfter(s, i) \in Digits THEN {i + 1} ELSE {}) :
                       CharAfter(s, k0) = "." /\ CharAfter(s, k0 + 1) \in Digits} }

\* one round of -?[\d\.]+ from position i
DashRunEnds(s, i) ==
    {e \in (i + 1)..Len(s) :
        \E st \in {i} \cup (IF CharAfter(s, i) = "-" THEN {i + 1} ELSE {}) :
            /\ e > st
            /\ \A q \in (st + 1)..e : s[q] \in Digits \cup {"."}}

RECURSIVE StarEnds(_, _, _)
\* (?:-?[\d\.]+)* : the positions reachable from `frontier` by zero or more rounds
StarEnds(s, frontier, seen) ==
    IF frontier \subseteq seen THEN seen
    ELSE StarEnds(s, UNION {DashRunEnds(s, i) : i \in frontier}, seen \cup frontier)

\* the positions at which the token before the lookahead may end
PyTokenEnds(s) ==
    UNION {StarEnds(s, AbiEnds(s, i), {}) : i \in ImplEnds(s)}

\* PyMatch with the lookahead tried only after the longest token, never backing off
PyMatchNoBacktrack(s) ==
    /\ PyTokenEnds(s) # {}
    /\ CharAfter(s, CHOOSE e \in PyTokenEnds(s) : \A f \in PyTokenEnds(s) : f <= e) # "w"

\* re.match of PY_MATCH_STR: some way of matching the token is not followed by "w"
PyMatch(s) == \E e \in PyTokenEnds(s) : CharAfter(s, e) # "w"

\* re.match of version_re_str: everything after (?P<major>\d+) is optional
VersionReMatch(s) == CharAfter(s, 0) \in Digits

\* RE_MATCHER.match(name), line 60
RE_MATCHER_match(s) == VersionReMatch(s) \/ PyMatch(s)

\* looks_like_python, lines 200-215
looks_like_python(name) ==
    IF ~ \E py_name \in Impls : StartsWith(Lower(name), py_name)
    THEN FALSE
    ELSE IF RE_MATCHER_match(name)
         THEN \E rule \in MATCH_RULES : fnmatch(name, rule)
         ELSE FALSE

(***************************************************************************)
(* The hosts the module may be imported on: os.name and the entries of     *)
(* PATHEXT (unset on a usual POSIX host).                                  *)
(***************************************************************************)
Hosts ==
    { <<"posix", {}>>,
      <<"nt", {}>>,
      <<"nt", {<<".", "E", "X", "E">>}>> }

(***************************************************************************)
(* The filenames tried: a head, up to MaxTail further characters and an    *)
(* optional extension.                                                     *)
(***************************************************************************)
MaxTail == 3

NameHeads ==
    { <<"p", "y", "t", "h", "o", "n">>,
      <<"P", "y", "t", "h", "o", "n">>,
      <<"p", "y", "p", "y">> }

TailChars == {"3", ".", "w", "-"}

NameExts == { <<>>, <<".", "p", "y">> }

Tails == UNION {[1..n -> TailChars] : n \in 0..MaxTail}

Names == {h \o t \o e : h \in NameHeads, t \in Tails, e \in NameExts}

(***************************************************************************)
(* SpecName: looks_like_python applied to one filename on one host.        *)
(***************************************************************************)
InitHost ==
    \E host \in Hosts :
        /\ os_name = host[1]
        /\ pathext = host[2]

InitIdle ==
    /\ fs = <<>>
    /\ cache_known = <<>>
    /\ cache_python = <<>>
    /\ cache_looks = <<>>

InitName ==
    /\ InitHost
    /\ InitIdle
    /\ arg \in Names
    /\ pc = "ready"
    /\ ret = None

CallLooksLikePython ==
    /\ pc = "ready"
    /\ pc' = "done"
    /\ ret' = looks_like_python(arg)
    /\ UNCHANGED <<os_name, pathext, arg, fs, cache_known, cache_python, cache_looks>>

NextName == CallLooksLikePython

SpecName == InitName /\ [][NextName]_vars

(***************************************************************************)
(* functools.lru_cache(maxsize=1024): the cache is a sequence of           *)
(* <<key, value>> pairs, least recently used first.                        *)
(***************************************************************************)
CacheMaxSize == 1024

CacheHas(cache, key) == \E i \in 1..Len(cache) : cache[i][1] = key

CacheGet(cache, key) == cache[CHOOSE i \in 1..Len(cache) : cache[i][1] = key][2]

\* a hit moves the entry to the most recently used end
CacheTouch(cache, key) ==
    SelectSeq(cache, LAMBDA e : e[1] # key) \o <<<<key, CacheGet(cache, key)>>>>

\* a miss stores the result and drops the least recently used entry when full
CachePut(cache, key, value) ==
    LET grown == Append(cache, <<key, value>>)
    IN  IF Len(grown) > CacheMaxSize THEN Tail(grown) ELSE grown

(***************************************************************************)
(* pathlib.Path.name and Path.suffix.                                      *)
(***************************************************************************)
\* the position of the last occurrence of c in s, 0 when there is none
LastIndexOf(s, c) ==
    IF \E i \in 1..Len(s) : s[i] = c
    THEN CHOOSE i \in 1..Len(s) : s[i] = c /\ \A j \in (i + 1)..Len(s) : s[j] # c
    ELSE 0

\* Path.name: the final path component
PathName(path) == SubSeq(path, LastIndexOf(path, "/") + 1, Len(path))

\* Path.suffix: the last dot of the name and what follows it, dot included
PathSuffix(path) ==
    LET name == PathName(path)
        d == LastIndexOf(name, ".")
    IN  IF 1 < d /\ d < Len(name) THEN SubSeq(name, d, Len(name)) ELSE <<>>

(***************************************************************************)
(* The path predicates, lines 170-229.                                     *)
(***************************************************************************)
\* path_is_executable: os.access(path, os.X_OK)
path_is_executable(path) == fs[path].x

\* the body of path_is_known_executable, lines 193-197
known_executable_body(path) ==
    \/ path_is_executable(path)
    \/ (fs[path].r /\ PathSuffix(path) \in KNOWN_EXTS)

(***************************************************************************)
(* SpecPath: one file whose permissions change between the calls made on   *)
(* it.                                                                     *)
(***************************************************************************)
Paths ==
    { <<"b", "/", "p", "y", "t", "h", "o", "n", "3">>,
      <<"b", "/", "f", "o", "o", ".", "p", "y">>,
      <<"b", "/", "f", "o", "o">>,
      <<"b", "/", "f", "o", "o", ".", "E", "X", "E">>,
      <<"b", "/", "f", "o", "o", ".", "t", "x", "t">> }

Perms == [x : BOOLEAN, r : BOOLEAN]

InitPath ==
    /\ InitHost
    /\ arg \in Paths
    /\ fs \in [{arg} -> Perms]
    /\ pc = "ready"
    /\ ret = None
    /\ cache_known = <<>>
    /\ cache_python = <<>>
    /\ cache_looks = <<>>

\* the environment changes the permissions of the file (chmod, unlink)
Chmod ==
    /\ \E perm \in Perms :
          /\ perm # fs[arg]
          /\ fs' = [fs EXCEPT ![arg] = perm]
    /\ pc' = "ready"
    /\ ret' = None
    /\ UNCHANGED <<os_name, pathext, arg, cache_known, cache_python, cache_looks>>

CallPathIsExecutable ==
    /\ pc' = "done"
    /\ ret' = [op |-> "path_is_executable", val |-> path_is_executable(arg), hit |-> FALSE]
    /\ UNCHANGED <<os_name, pathext, arg, fs, cache_known, cache_python, cache_looks>>

CallPathIsKnownExecutable ==
    /\ pc' = "done"
    /\ IF CacheHas(cache_known, arg)
       THEN /\ ret' = [op |-> "path_is_known_executable",
                       val |-> CacheGet(cache_known, arg), hit |-> TRUE]
            /\ cache_known' = CacheTouch(cache_known, arg)
       ELSE /\ ret' = [op |-> "path_is_known_executable",
                       val |-> known_executable_body(arg), hit |-> FALSE]
            /\ cache_known' = CachePut(cache_known, arg, known_executable_body(arg))
    /\ UNCHANGED <<os_name, pathext, arg, fs, cache_python, cache_looks>>

CallPathIsPython ==
    /\ pc' = "done"
    /\ IF CacheHas(cache_python, arg)
       THEN /\ ret' = [op |-> "path_is_python",
                       val |-> CacheGet(cache_python, arg), hit |-> TRUE]
            /\ cache_python' = CacheTouch(cache_python, arg)
            /\ UNCHANGED cache_looks
       ELSE LET name == PathName(arg)
                \* `and` short-circuits: the name is looked at only when executable
                looked == path_is_executable(arg)
                val == IF ~looked THEN FALSE
                       ELSE IF CacheHas(cache_looks, name) THEN CacheGet(cache_looks, name)
                       ELSE looks_like_python(name)
            IN  /\ ret' = [op |-> "path_is_python", val |-> val, hit |-> FALSE]
                /\ cache_python' = CachePut(cache_python, arg, val)
                /\ cache_looks' =
                      IF ~looked THEN cache_looks
                      ELSE IF CacheHas(cache_looks, name) THEN CacheTouch(cache_looks, name)
                      ELSE CachePut(cache_looks, name, val)
    /\ UNCHANGED <<os_name, pathext, arg, fs, cache_known>>

NextPath ==
    \/ Chmod
    \/ CallPathIsExecutable
    \/ CallPathIsKnownExecutable
    \/ CallPathIsPython

SpecPath == InitPath /\ [][NextPath]_vars

(***************************************************************************)
(* guess_company and path_is_pythoncore, lines 232-261.                    *)
(***************************************************************************)
PythonCore == <<"P", "y", "t", "h", "o", "n", "C", "o", "r", "e">>

\* guess_company searching the path as given, without path.lower()
guess_company_case_sensitive(path) ==
    LET found == SelectSeq(Tail(PYTHON_IMPLEMENTATIONS), LAMBDA impl : Contains(path, impl))
    IN  IF found = <<>> THEN PythonCore ELSE Head(found)

guess_company(path) ==
    LET non_core_pythons ==
            SelectSeq(PYTHON_IMPLEMENTATIONS, LAMBDA impl : impl # PYTHON_IMPLEMENTATIONS[1])
        found == SelectSeq(non_core_pythons, LAMBDA impl : Contains(Lower(path), impl))
    IN  IF found = <<>> THEN PythonCore ELSE Head(found)

path_is_pythoncore(path) ==
    LET company == guess_company(path)
    IN  IF company # <<>> THEN company = PythonCore ELSE FALSE

(***************************************************************************)
(* SpecCompany: both functions applied to one path string.                 *)
(***************************************************************************)
MaxPathParts == 3

PathFrags ==
    { <<"/">>,
      <<"3">>,
      <<"p", "y", "t", "h", "o", "n">>,
      <<"p", "y", "p", "y">>,
      <<"P", "y", "P", "y">>,
      <<"j", "y", "t", "h", "o", "n">>,
      <<"i", "r", "o", "n">>,
      <<"P", "Y", "S", "T", "O", "N">> }

RECURSIVE PathsOf(_)
\* every concatenation of exactly n fragments
PathsOf(n) ==
    IF n = 0 THEN {<<>>}
    ELSE {t \o f : t \in PathsOf(n - 1), f \in PathFrags}

CompanyPaths == UNION {PathsOf(n) : n \in 0..MaxPathParts}

InitCompany ==
    /\ os_name = "posix"
    /\ pathext = {}
    /\ InitIdle
    /\ arg \in CompanyPaths
    /\ pc = "ready"
    /\ ret = None

CallGuessCompany ==
    /\ pc = "ready"
    /\ pc' = "done"
    /\ ret' = [op |-> "guess_company", val |-> guess_company(arg)]
    /\ UNCHANGED <<os_name, pathext, arg, fs, cache_known, cache_python, cache_looks>>

CallPathIsPythoncore ==
    /\ pc = "ready"
    /\ pc' = "done"
    /\ ret' = [op |-> "path_is_pythoncore", val |-> path_is_pythoncore(arg)]
    /\ UNCHANGED <<os_name, pathext, arg, fs, cache_known, cache_python, cache_looks>>

NextCompany == CallGuessCompany \/ CallPathIsPythoncore

SpecCompany == InitCompany /\ [][NextCompany]_vars

(***************************************************************************)
(* Numbers and digit strings.                                              *)
(***************************************************************************)
DigitSeq == <<"0", "1", "2", "3", "4", "5", "6", "7", "8", "9">>

DigitVal(c) == (CHOOSE i \in 1..Len(DigitSeq) : DigitSeq[i] = c) - 1

RECURSIVE ToInt(_)
\* int(s) for a string of decimal digits
ToInt(s) ==
    IF s = <<>> THEN 0
    ELSE 10 * ToInt(SubSeq(s, 1, Len(s) - 1)) + DigitVal(s[Len(s)])

RECURSIVE ToStr(_)
\* str(n) for a natural number
ToStr(n) == IF n < 10 THEN <<DigitSeq[n + 1]>> ELSE ToStr(n \div 10) \o <<DigitSeq[(n % 10) + 1]>>

RECURSIVE DigitRunEnd(_, _)
\* \d+ or [0-9]+ from position i, greedy: the end of the run of digits (i when none)
DigitRunEnd(s, i) ==
    IF CharAfter(s, i) \in Digits THEN DigitRunEnd(s, i + 1) ELSE i

RECURSIVE DottedRunEnd(_, _)
\* (?:\.\d+)* from position i, greedy
DottedRunEnd(s, i) ==
    IF CharAfter(s, i) = "." /\ DigitRunEnd(s, i + 1) > i + 1
    THEN DottedRunEnd(s, DigitRunEnd(s, i + 1))
    ELSE i

\* s[i+1 .. j]
Slice(s, i, j) == SubSeq(s, i + 1, j)

(***************************************************************************)
(* version_re.match, lines 27-32.  Once (?P<major>\d+) has matched, every  *)
(* later part is optional, so the match never fails and the matcher never  *)
(* gives back what a greedy part took: each part takes what it can, in     *)
(* order.  A group that took no part in the match, or matched the empty    *)
(* string, is <<>> (both are false in Python).                             *)
(***************************************************************************)
\* (?:\.(\d+))? from position i: the end of the number, or i
OptDotDigitsEnd(s, i) ==
    IF CharAfter(s, i) = "." /\ DigitRunEnd(s, i + 1) > i + 1
    THEN DigitRunEnd(s, i + 1)
    ELSE i

\* (\.post(\d+))? and (\.dev(\d+))? from position i: the end of the number, or i
OptLitDigitsEnd(s, i, lit) ==
    IF LitAt(s, i, lit) /\ DigitRunEnd(s, i + Len(lit)) > i + Len(lit)
    THEN DigitRunEnd(s, i + Len(lit))
    ELSE i

\* [abc]|rc|dev at position i, or <<>>
PrerelAt(s, i) ==
    IF CharAfter(s, i) \in {"a", "b", "c"} THEN <<CharAfter(s, i)>>
    ELSE IF LitAt(s, i, <<"r", "c">>) THEN <<"r", "c">>
    ELSE IF LitAt(s, i, <<"d", "e", "v">>) THEN <<"d", "e", "v">>
    ELSE <<>>

\* Each part of the pattern, in order, adds the position where it ends to the
\* positions e of the parts before it.
\* (?P<major>\d+)
MajorEnd(s) == <<DigitRunEnd(s, 0)>>
\* (?:\.(?P<minor>\d+))?
MinorEnd(s, e) == Append(e, OptDotDigitsEnd(s, e[1]))
\* (?:\.(?P<patch>(?<=\.)[0-9]+))?
PatchEnd(s, e) == Append(e, OptDotDigitsEnd(s, e[2]))
\* \.?
DotEnd(s, e) == Append(e, IF CharAfter(s, e[3]) = "." THEN e[3] + 1 ELSE e[3])
\* (?P<prerel>[abc]|rc|dev)
PrerelEnd(s, e) == Append(e, e[4] + Len(PrerelAt(s, e[4])))
\* (?:(?P<prerelversion>\d+(?:\.\d+)*))?  -- only inside the prerel group
PrerelversionEnd(s, e) ==
    Append(e, IF e[5] > e[4] /\ DigitRunEnd(s, e[5]) > e[5]
              THEN DottedRunEnd(s, DigitRunEnd(s, e[5]))
              ELSE e[5])
\* (\.post(?P<post>\d+))?
PostEnd(s, e) == Append(e, OptLitDigitsEnd(s, e[6], <<".", "p", "o", "s", "t">>))
\* (\.dev(?P<dev>\d+))?
DevEnd(s, e) == Append(e, OptLitDigitsEnd(s, e[7], <<".", "d", "e", "v">>))

\* match.groupdict() for the end positions
\* e = <<major, minor, patch, dot, prerel, prerelversion, post, dev>>
Groups(s, e) ==
    IF e[1] = 0
    THEN [matched |-> FALSE]
    ELSE [matched |-> TRUE,
          major |-> Slice(s, 0, e[1]),
          minor |-> IF e[2] > e[1] THEN Slice(s, e[1] + 1, e[2]) ELSE <<>>,
          patch |-> IF e[3] > e[2] THEN Slice(s, e[2] + 1, e[3]) ELSE <<>>,
          prerel |-> Slice(s, e[4], e[5]),
          prerelversion |-> Slice(s, e[5], e[6]),
          postdev |-> Slice(s, e[6], e[8]),
          post |-> IF e[7] > e[6] THEN Slice(s, e[6] + 5, e[7]) ELSE <<>>,
          dev |-> IF e[8] > e[7] THEN Slice(s, e[7] + 4, e[8]) ELSE <<>>]

version_re_match(s) ==
    Groups(s, DevEnd(s, PostEnd(s, PrerelversionEnd(s, PrerelEnd(s, DotEnd(s,
                  PatchEnd(s, MinorEnd(s, MajorEnd(s)))))))))

(***************************************************************************)
(* packaging.version.parse (imported at lines 16 and 110): the PEP 440     *)
(* grammar                                                                 *)
(*   v? release pre? post? dev?      matched over the whole string,        *)
(*   without regard to case,                                               *)
(* and the ordering of the versions it returns.  Nothing that may follow a *)
(* number starts with a digit, nothing that may follow a spelling starts   *)
(* with a letter that continues a longer spelling, and every later part    *)
(* accepts a leading separator, so the first match of the backtracking     *)
(* matcher is the one in which each part takes what it can.  Epochs        *)
(* ("1!") and local versions ("+abc") are left out: no string formed here  *)
(* holds "!" or "+".                                                       *)
(***************************************************************************)
Separators == {"-", "_", "."}

\* [-_\.]? from position i, greedy
SepEnd(s, i) == IF CharAfter(s, i) \in Separators THEN i + 1 ELSE i

\* the spellings of a pre-release, in the order of the alternation, with the
\* letter each is normalized to
PreSpellings ==
    << << <<"a", "l", "p", "h", "a">>, "a" >>,
       << <<"a">>, "a" >>,
       << <<"b", "e", "t", "a">>, "b" >>,
       << <<"b">>, "b" >>,
       << <<"p", "r", "e", "v", "i", "e", "w">>, "rc" >>,
       << <<"p", "r", "e">>, "rc" >>,
       << <<"c">>, "rc" >>,
       << <<"r", "c">>, "rc" >> >>

\* the spellings of a post-release, in the order of the alternation
PostSpellings ==
    << << <<"p", "o", "s", "t">>, "post" >>,
       << <<"r", "e", "v">>, "post" >>,
       << <<"r">>, "post" >> >>

\* the first spelling of `table` found at position i, as an index, or 0
FirstSpelling(s, i, table) ==
    IF \E n \in 1..Len(table) : LitAt(s, i, table[n][1])
    THEN CHOOSE n \in 1..Len(table) :
            /\ LitAt(s, i, table[n][1])
            /\ \A m \in 1..(n - 1) : ~LitAt(s, i, table[m][1])
    ELSE 0

\* an optional number [0-9]+ at position i: 0 when there is none
NumberAt(s, i) == IF DigitRunEnd(s, i) > i THEN ToInt(Slice(s, i, DigitRunEnd(s, i))) ELSE 0

RECURSIVE SplitDots(_)
\* the numbers of a release segment such as 3.9.0
SplitDots(r) ==
    LET e == DigitRunEnd(r, 0)
    IN  IF e = Len(r) THEN <<ToInt(r)>>
        ELSE <<ToInt(Slice(r, 0, e))>> \o SplitDots(Slice(r, e + 1, Len(r)))

InvalidVersion == [valid |-> FALSE]

\* the spelling found after an optional separator at position i, as an index
SpellingAt(s, i, table) == FirstSpelling(s, SepEnd(s, i), table)

\* the end of <separator> <spelling n of table> <separator> <number>, where
\* both separators and the number are optional
LabelledEnd(s, i, table, n) ==
    DigitRunEnd(s, SepEnd(s, SepEnd(s, i) + Len(table[n][1])))

\* the number of <separator> <spelling n of table> <separator> <number>
LabelledNumber(s, i, table, n) ==
    NumberAt(s, SepEnd(s, SepEnd(s, i) + Len(table[n][1])))

\* the one spelling of a development release
DevSpellings == << << <<"d", "e", "v">>, "dev" >> >>

\* -(?P<post_n1>[0-9]+) at position i
HasPostN1(s, i) == CharAfter(s, i) = "-" /\ DigitRunEnd(s, i + 1) > i + 1

\* Each part of the grammar, in order, adds the position where it ends to the
\* positions e of the parts before it.
\* v?
VEnd(s) == <<IF CharAfter(s, 0) = "v" THEN 1 ELSE 0>>
\* (?P<release>[0-9]+(?:\.[0-9]+)*), empty when there is no number
ReleaseEnd(s, e) ==
    Append(e, IF DigitRunEnd(s, e[1]) > e[1]
              THEN DottedRunEnd(s, DigitRunEnd(s, e[1]))
              ELSE e[1])
\* (?P<pre>[-_\.]?(?P<pre_l>alpha|a|...)[-_\.]?(?P<pre_n>[0-9]+)?)?
PreEnd(s, e) ==
    Append(e, IF SpellingAt(s, e[2], PreSpellings) = 0 THEN e[2]
              ELSE LabelledEnd(s, e[2], PreSpellings, SpellingAt(s, e[2], PreSpellings)))
\* (?P<post>(?:-(?P<post_n1>[0-9]+))|(?:[-_\.]?(?P<post_l>post|rev|r)[-_\.]?(?P<post_n2>[0-9]+)?))?
PostReleaseEnd(s, e) ==
    Append(e, IF HasPostN1(s, e[3]) THEN DigitRunEnd(s, e[3] + 1)
              ELSE IF SpellingAt(s, e[3], PostSpellings) = 0 THEN e[3]
              ELSE LabelledEnd(s, e[3], PostSpellings, SpellingAt(s, e[3], PostSpellings)))
\* (?P<dev>[-_\.]?(?P<dev_l>dev)[-_\.]?(?P<dev_n>[0-9]+)?)?
DevReleaseEnd(s, e) ==
    Append(e, IF SpellingAt(s, e[4], DevSpellings) = 0 THEN e[4]
              ELSE LabelledEnd(s, e[4], DevSpellings, 1))

\* the Version of the end positions e = <<v, release, pre, post, dev>>
VersionOf(s, e) ==
    IF e[2] > e[1] /\ e[5] = Len(s)
    THEN [valid |-> TRUE,
          release |-> SplitDots(Slice(s, e[1], e[2])),
          pre |-> IF e[3] = e[2] THEN <<>>
                  ELSE <<PreSpellings[SpellingAt(s, e[2], PreSpellings)][2],
                         LabelledNumber(s, e[2], PreSpellings,
                                        SpellingAt(s, e[2], PreSpellings))>>,
          post |-> IF e[4] = e[3] THEN <<>>
                   ELSE IF HasPostN1(s, e[3]) THEN <<NumberAt(s, e[3] + 1)>>
                   ELSE <<LabelledNumber(s, e[3], PostSpellings,
                                         SpellingAt(s, e[3], PostSpellings))>>,
          dev |-> IF e[5] = e[4] THEN <<>>
                  ELSE <<LabelledNumber(s, e[4], DevSpellings, 1)>>]
    ELSE InvalidVersion

\* the grammar applied to a string in lower case
ParseLower(s) ==
    VersionOf(s, DevReleaseEnd(s, PostReleaseEnd(s, PreEnd(s, ReleaseEnd(s, VEnd(s))))))

\* Version(s): the parsed version, or InvalidVersion
parse_version(str) == ParseLower(Lower(str))

RECURSIVE StripZeros(_)
\* the release without its trailing zeros
StripZeros(r) ==
    IF r # <<>> /\ r[Len(r)] = 0 THEN StripZeros(SubSeq(r, 1, Len(r) - 1)) ELSE r

\* the rank of a pre-release letter: "a" < "b" < "rc" as strings
LetterRank(l) == IF l = "a" THEN 1 ELSE IF l = "b" THEN 2 ELSE 3

\* Version._key after the release: pre, post and dev with the infinities of
\* _cmpkey as the ranks 0 (below everything) and 4 or 1 (above everything)
KeyTail(v) ==
    (IF v.pre = <<>> /\ v.post = <<>> /\ v.dev # <<>> THEN <<0, 0>>
     ELSE IF v.pre = <<>> THEN <<4, 0>>
     ELSE <<LetterRank(v.pre[1]), v.pre[2]>>)
    \o (IF v.post = <<>> THEN <<0, 0>> ELSE <<1, v.post[1]>>)
    \o (IF v.dev = <<>> THEN <<1, 0>> ELSE <<0, v.dev[1]>>)

\* a < b for tuples of numbers, a proper prefix being smaller
TupleLess(a, b) ==
    \E k \in 1..(Len(b)) :
        /\ \A j \in 1..(k - 1) : j <= Len(a) /\ a[j] = b[j]
        /\ (k > Len(a) \/ (k <= Len(a) /\ a[k] < b[k]))
        /\ k - 1 <= Len(a)

\* Version.__lt__
VersionLess(v, w) ==
    \/ TupleLess(StripZeros(v.release), StripZeros(w.release))
    \/ (StripZeros(v.release) = StripZeros(w.release) /\ TupleLess(KeyTail(v), KeyTail(w)))

\* Version.__eq__
VersionEq(v, w) ==
    StripZeros(v.release) = StripZeros(w.release) /\ KeyTail(v) = KeyTail(w)

(***************************************************************************)
(* parse_python_version, lines 108-156.  An optional value is <<>> for     *)
(* None and <<n>> for the number n.                                        *)
(***************************************************************************)
DebugSuffix == <<"-", "d", "e", "b", "u", "g">>

\* StripDebug that records the marker and forgets to take it off the string
StripDebugKeepsSuffix(version_str) ==
    <<EndsWith(version_str, DebugSuffix), version_str>>

\* lines 112-115: <<is_debug, version_str>> after the "-debug" marker is taken off;
\* rpartition("-") keeps what comes before the last "-"
StripDebug(version_str) ==
    IF EndsWith(version_str, DebugSuffix)
    THEN <<TRUE, SubSeq(version_str, 1, LastIndexOf(version_str, "-") - 1)>>
    ELSE <<FALSE, version_str>>

\* IntOrNone testing the number instead of the text: a group "0" becomes None
IntOrNoneTruthy(group) ==
    IF group # <<>> /\ ToInt(group) # 0 THEN <<ToInt(group)>> ELSE <<>>

\* int(group) if group else None, lines 120-122
IntOrNone(group) == IF group # <<>> THEN <<ToInt(group)>> ELSE <<>>

\* ".".join(parts) for the parts that are true (not None, not empty)
RECURSIVE JoinDots(_)
JoinDots(parts) ==
    LET kept == SelectSeq(parts, LAMBDA v : v # <<>>)
    IN  IF kept = <<>> THEN <<>>
        ELSE IF Len(kept) = 1 THEN kept[1]
        ELSE kept[1] \o <<".">> \o JoinDots(Tail(kept))

\* lines 137-145: the string rebuilt from the groups of the match
Reconstruct(g) ==
    LET pre == IF g.prerel # <<>> /\ g.prerelversion # <<>>
               THEN g.prerel \o g.prerelversion
               ELSE <<>>
    IN  JoinDots(<<g.major, g.minor, g.patch, pre, g.postdev, g.post, g.dev>>)

Raise(exc) == [kind |-> "raise", exc |-> exc]

\* lines 116-156 for the groups g of the match and the strict parse
ParsedVersion(is_debug, g, strict) ==
    LET \* lines 136-146: only when the strict parse raised InvalidVersion
        rebuilt == parse_version(Reconstruct(g))
    IN  IF ~g.matched THEN Raise("InvalidPythonVersion")
        ELSE IF ~strict.valid /\ ~rebuilt.valid THEN Raise("InvalidVersion")
        ELSE [kind |-> "ok",
              major |-> IntOrNone(g.major),
              minor |-> IntOrNone(g.minor),
              patch |-> IntOrNone(g.patch),
              is_postrelease |-> g.post # <<>>,
              is_prerelease |-> g.prerel # <<>>,
              is_devrelease |-> g.dev # <<>>,
              is_debug |-> is_debug,
              version |-> IF strict.valid THEN strict ELSE rebuilt]

\* lines 116-134 for the string without its marker
ParseStripped(is_debug, version_str) ==
    ParsedVersion(is_debug, version_re_match(version_str), parse_version(version_str))

parse_python_version(raw) == ParseStripped(StripDebug(raw)[1], StripDebug(raw)[2])

(***************************************************************************)
(* SpecVersion: parse_python_version applied to one version string.  The   *)
(* string is written from its parts: a release, then optionally a dot, a   *)
(* pre-release tag with its number, ".postN", ".devN", up to MaxJunk       *)
(* characters that belong to no version, and up to MaxDebug "-debug"       *)
(* markers.                                                                *)
(***************************************************************************)
MaxJunk == 1
MaxDebug == 2

Releases == { <<3>>, <<3, 9>>, <<10, 0>>, <<3, 9, 0>>, <<3, 9, 1>>, <<3, 0, 12>> }

PreTags == { <<>>, <<"b">>, <<"r", "c">>, <<"d", "e", "v">> }

PreNumbers == { <<>>, <<"1">>, <<"1", ".", "2">> }

VersionInputs ==
    { i \in [lead : {<<>>, <<"v">>},
             release : Releases,
             dot : {<<>>, <<".">>},
             pretag : PreTags,
             prenum : PreNumbers,
             post : {<<>>, <<".", "p", "o", "s", "t", "1">>},
             dev : {<<>>, <<".", "d", "e", "v", "2">>},
             junk : 0..MaxJunk,
             debug : 0..MaxDebug] :
        /\ i.pretag = <<>> => i.prenum = <<>>
        /\ i.lead # <<>> => (i.release = <<3, 9>> /\ i.dot = <<>> /\ i.pretag = <<>>
                            /\ i.post = <<>> /\ i.dev = <<>> /\ i.junk = 0) }

RECURSIVE Repeat(_, _)
Repeat(s, n) == IF n = 0 THEN <<>> ELSE s \o Repeat(s, n - 1)

\* the release written out: 3.9.0
ReleaseText(release) == JoinDots([k \in 1..Len(release) |-> ToStr(release[k])])

\* the version string of an input, without its "-debug" markers
BaseText(i) ==
    i.lead \o ReleaseText(i.release) \o i.dot \o i.pretag \o i.prenum \o i.post \o i.dev
        \o Repeat(<<"x">>, i.junk)

\* the version string of an input
VersionText(i) == BaseText(i) \o Repeat(DebugSuffix, i.debug)

InitVersion ==
    /\ os_name = "posix"
    /\ pathext = {}
    /\ InitIdle
    /\ \E i \in VersionInputs : arg = [parts |-> i, text |-> VersionText(i)]
    /\ pc = "ready"
    /\ ret = None

CallParsePythonVersion ==
    /\ pc = "ready"
    /\ pc' = "done"
    /\ ret' = parse_python_version(arg.text)
    /\ UNCHANGED <<os_name, pathext, arg, fs, cache_known, cache_python, cache_looks>>

NextVersion == CallParsePythonVersion

SpecVersion == InitVersion /\ [][NextVersion]_vars

(***************************************************************************)
(* Properties of looks_like_python, checked under SpecName.                *)
(***************************************************************************)
\* the name starts with an implementation name, compared without regard to case
HasImplPrefixAnyCase(name) ==
    \E impl \in Impls :
        /\ Len(impl) <= Len(name)
        /\ \A k \in 1..Len(impl) : LowerChar(name[k]) = impl[k]

\* the name matches at least one pattern of the MATCH_RULES table
MatchesSomeRule(name) == \E rule \in MATCH_RULES : fnmatch(name, rule)

\* the name starts with an implementation name in lower case that is not
\* directly followed by "w"
HasPlainImplPrefix(name) ==
    \E impl \in Impls : StartsWith(name, impl) /\ CharAfter(name, Len(impl)) # "w"

\* C1 as stated: every filename that starts, in any case, with an implementation
\* name and matches at least one MATCH_RULES pattern is reported as python.
C1_AnyRuleMatchLooksLikePython ==
    (pc = "done" /\ HasImplPrefixAnyCase(arg) /\ MatchesSomeRule(arg)) => ret = TRUE

\* C1 amended: every filename that starts with an implementation name written in
\* lower case and not directly followed by "w", and that matches at least one
\* MATCH_RULES pattern, is reported as python.
C1_PlainPrefixRuleMatchLooksLikePython ==
    (pc = "done" /\ HasPlainImplPrefix(arg) /\ MatchesSomeRule(arg)) => ret = TRUE

\* a versioned name with a dot, such as python3.3, was reported as python
C1_Witness ==
    /\ pc = "done"
    /\ HasPlainImplPrefix(arg)
    /\ MatchesSomeRule(arg)
    /\ Contains(arg, <<"3", ".">>)
    /\ ret = TRUE

\* C2 as stated: a filename in which the implementation-name token (the name,
\* optional digit, dot, digit and c/p/m tags, further digit/dot groups) is
\* directly followed by "w" is never reported as python.
C2_TokenThenWNeverPython ==
    (pc = "done" /\ \E e \in PyTokenEnds(arg) : CharAfter(arg, e) = "w") => ret = FALSE

(***************************************************************************)
(* Properties of the path predicates, checked under SpecPath.              *)
(***************************************************************************)
\* the file extension of the path: what follows the last dot of its name
Extension(path) ==
    LET s == PathSuffix(path) IN IF s = <<>> THEN <<>> ELSE Tail(s)

\* C5 as stated, for the calls that computed their result (no cache involved):
\* path_is_known_executable is true exactly when the path is executable, or is
\* readable and has an extension that is a member of KNOWN_EXTS.
C5_KnownExecutableIffExecOrKnownExt ==
    (pc = "done" /\ ret.op = "path_is_known_executable" /\ ~ret.hit)
        => (ret.val <=> (fs[arg].x \/ (fs[arg].r /\ Extension(arg) \in KNOWN_EXTS)))

\* C6 as stated: whatever calls and permission changes came before, the result of
\* path_is_python is "executable now, and the name looks like python".
C6_PathIsPythonFollowsPermission ==
    (pc = "done" /\ ret.op = "path_is_python")
        => /\ ~fs[arg].x => ret.val = FALSE
           /\ ret.val <=> (path_is_executable(arg) /\ looks_like_python(PathName(arg)))

(***************************************************************************)
(* Properties of guess_company, checked under SpecCompany.                 *)
(***************************************************************************)
DeclaredOrder ==
    << <<"i", "r", "o", "n", "p", "y", "t", "h", "o", "n">>,
       <<"j", "y", "t", "h", "o", "n">>,
       <<"p", "y", "p", "y">>,
       <<"a", "n", "a", "c", "o", "n", "d", "a">>,
       <<"m", "i", "n", "i", "c", "o", "n", "d", "a">>,
       <<"s", "t", "a", "c", "k", "l", "e", "s", "s">>,
       <<"a", "c", "t", "i", "v", "e", "p", "y", "t", "h", "o", "n">>,
       <<"p", "y", "s", "t", "o", "n">>,
       <<"m", "i", "c", "r", "o", "p", "y", "t", "h", "o", "n">> >>

\* the name occurs somewhere in the path, compared without regard to case
OccursIn(path, impl) ==
    \E i \in 0..(Len(path) - Len(impl)) :
        \A k \in 1..Len(impl) : LowerChar(path[i + k]) = impl[k]

\* C7: guess_company returns the first name of the declared order that occurs in
\* the lower-cased path, and PythonCore exactly when none occurs;
\* path_is_pythoncore is true exactly when guess_company gives PythonCore.
C7_GuessCompanyFirstDeclared ==
    pc = "done" =>
        /\ ret.op = "guess_company" =>
              /\ \A n \in 1..Len(DeclaredOrder) :
                    (OccursIn(arg, DeclaredOrder[n])
                     /\ \A m \in 1..(n - 1) : ~OccursIn(arg, DeclaredOrder[m]))
                        => ret.val = DeclaredOrder[n]
              /\ (ret.val = PythonCore)
                    <=> (\A n \in 1..Len(DeclaredOrder) : ~OccursIn(arg, DeclaredOrder[n]))
        /\ ret.op = "path_is_pythoncore" =>
              (ret.val <=> (guess_company(arg) = PythonCore))

\* pypy comes first in the path and jython later, and jython, declared first, won
C7_Witness ==
    /\ pc = "done"
    /\ ret.op = "guess_company"
    /\ StartsWith(Lower(arg), DeclaredOrder[3])
    /\ OccursIn(arg, DeclaredOrder[2])
    /\ ret.val = DeclaredOrder[2]

(***************************************************************************)
(* Properties of parse_python_version, checked under SpecVersion.          *)
(***************************************************************************)
Accepted == pc = "done" /\ ret.kind = "ok"

\* C3 as stated: the call returns a result or raises InvalidPythonVersion and
\* nothing else, and it raises exactly when the string, its "-debug" marker
\* taken off, does not start with the version grammar (here: does not start with
\* a number).
C3_OnlyInvalidPythonVersion ==
    pc = "done" =>
        /\ ret.kind = "ok" \/ ret = Raise("InvalidPythonVersion")
        /\ (ret.kind = "raise") <=> (arg.parts.lead # <<>>)

\* C4 as stated: an accepted input major.minor.patch with is_prerelease = true
\* has a normalized version strictly below that of the final release
\* major.minor.patch (stated for the inputs without a "-debug" marker).
C4_PrereleaseBelowFinal ==
    (Accepted /\ ret.is_prerelease /\ Len(arg.parts.release) = 3 /\ arg.parts.debug = 0)
        => VersionLess(ret.version,
                       parse_python_version(ReleaseText(arg.parts.release)).version)

\* the result of parsing the input with one more "-debug" marker is the result
\* held in ret, with is_debug = true
SameWithDebugAppended ==
    LET again == parse_python_version(arg.text \o DebugSuffix)
    IN  /\ again.kind = "ok"
        /\ again.major = ret.major
        /\ again.minor = ret.minor
        /\ again.patch = ret.patch
        /\ again.is_prerelease = ret.is_prerelease
        /\ again.is_postrelease = ret.is_postrelease
        /\ again.is_devrelease = ret.is_devrelease
        /\ VersionEq(again.version, ret.version)
        /\ again.is_debug = TRUE

\* C8 as stated: for every accepted string v, v + "-debug" is accepted with the
\* same numbers, flags and normalized version and is_debug = true; and is_debug
\* is false for an accepted input that does not end in "-debug".
C8_DebugSuffixOnlySetsFlag ==
    Accepted =>
        /\ SameWithDebugAppended
        /\ arg.parts.debug = 0 => ret.is_debug = FALSE

\* C8 amended: the same, for every accepted string v that does not itself end
\* in "-debug".
C8_DebugSuffixOnlySetsFlagOnce ==
    (Accepted /\ arg.parts.debug = 0) =>
        /\ SameWithDebugAppended
        /\ ret.is_debug = FALSE

\* a pre-release without marker was accepted, and is accepted with the marker
C8_Witness ==
    /\ Accepted
    /\ arg.parts.debug = 0
    /\ ret.is_prerelease
    /\ ret.is_debug = FALSE
    /\ parse_python_version(arg.text \o DebugSuffix).is_debug = TRUE

\* the string holds the literal followed by a digit, as in ".post1"
Carries(text, lit) ==
    \E i \in 0..Len(text) : LitAt(text, i, lit) /\ CharAfter(text, i + Len(lit)) \in Digits

\* C9 as stated: is_postrelease is true exactly when the input carries a .postN
\* component, is_devrelease exactly when it carries a .devN component.
C9_StageFlagsReportPresence ==
    Accepted =>
        /\ ret.is_postrelease <=> Carries(arg.text, <<".", "p", "o", "s", "t">>)
        /\ ret.is_devrelease <=> Carries(arg.text, <<".", "d", "e", "v">>)

\* C10: major, minor and patch are the numbers of the release the string was
\* written from, 0 included, and None for a number the release does not have;
\* major is never None and patch is None whenever minor is.
C10_ReleaseNumbers ==
    Accepted =>
        /\ ret.major = <<arg.parts.release[1]>>
        /\ ret.minor = IF Len(arg.parts.release) >= 2 THEN <<arg.parts.release[2]>> ELSE <<>>
        /\ ret.patch = IF Len(arg.parts.release) >= 3 THEN <<arg.parts.release[3]>> ELSE <<>>
        /\ ret.major # <<>>
        /\ ret.patch # <<>> => ret.minor # <<>>

\* 3.9.0 with a pre-release tag was accepted with patch = 0
C10_Witness ==
    /\ Accepted
    /\ arg.parts.release = <<3, 9, 0>>
    /\ arg.parts.pretag # <<>>
    /\ ret.patch = <<0>>
    /\ ret.minor = <<9>>

====
